---- MODULE Spec2Model ----
(***************************************************************************)
(* Model of the go-dalle client (src/dalle.go): NewClient and the three    *)
(* blocking operations Generate, Edit and Variation, each split at its     *)
(* single blocking point, the call to c.httpClient.Do.                      *)
(***************************************************************************)
EXTENDS Integers, Sequences, FiniteSets, TLC

VARIABLES client, calls

vars == <<client, calls>>

(***************************************************************************)
(* Bounds of the model.                                                    *)
(***************************************************************************)
\* counts the caller passes are 1..MaxCount
MaxCount == 2
\* a response envelope carries at most MaxItems items
MaxItems == 2
\* the simultaneous invocations on the one client
Calls == {"call1", "call2"}

(***************************************************************************)
(* Program constants.                                                      *)
(***************************************************************************)
Small == 256
Medium == 512
Large == 1024

defaultBaseURL == "https://api.openai.com/v1/images"
defaultUserAgent == "go-dalle"
defaultTimeout == 30

URLFormat == "url"
Base64JSONFormat == "b64_json"

(***************************************************************************)
(* The caller's side: the API key, the prompt, the files and the integers  *)
(* whose addresses the caller passes as size and n.                        *)
(***************************************************************************)
ApiKey == "sk-test"
Prompts == {"A horse in an elevator"}

\* *os.File: nil, or an open file that io.Copy can or cannot read to the end
NilFile == [isNil |-> TRUE, name |-> "", data |-> "", readable |-> FALSE]
GoodFile(nm) == [isNil |-> FALSE, name |-> nm, data |-> "PNG", readable |-> TRUE]
BadFile(nm) == [isNil |-> FALSE, name |-> nm, data |-> "PNG", readable |-> FALSE]
Images == {NilFile, GoodFile("image.png"), BadFile("image.png")}
Masks == {NilFile, GoodFile("mask.png"), BadFile("mask.png")}

\* *string: nil or a pointer to a string
NilStr == [isNil |-> TRUE, val |-> ""]
StrPtr(s) == [isNil |-> FALSE, val |-> s]
Users == {NilStr, StrPtr("user-1")}
ResponseTypes == {NilStr, StrPtr(URLFormat)}

\* *int: nil (0) or the address of an int variable of the caller.  The
\* caller's variables hold the three sizes and the counts 1..MaxCount and
\* live at word-aligned addresses above HeapBase.
NilPtr == 0
HeapBase == 49152
IntVars == <<Small, Medium, Large>> \o [i \in 1..MaxCount |-> i]
AddrOf(i) == HeapBase + 8 * i
Deref(p) == IntVars[(p - HeapBase) \div 8]
SizePtrs == {NilPtr} \cup {AddrOf(i) : i \in 1..3}
CountPtrs == {NilPtr} \cup {AddrOf(3 + i) : i \in 1..MaxCount}

(***************************************************************************)
(* fmt: the verb %d applied to an int prints its decimal digits; applied   *)
(* to a pointer it prints the address "exactly as if it were an integer".  *)
(***************************************************************************)
Digits == <<"0", "1", "2", "3", "4", "5", "6", "7", "8", "9">>

RECURSIVE ToDecimal(_)
ToDecimal(v) ==
    IF v < 0 THEN "-" \o ToDecimal(0 - v)
    ELSE IF v < 10 THEN Digits[v + 1]
    ELSE ToDecimal(v \div 10) \o Digits[(v % 10) + 1]

\* fmt.Sprintf("%d", n) with n of type *int: the operand is the pointer
SprintfD(n) == ToDecimal(n)

\* fmt.Sprintf("%dx%d", size, size) with size of type *int
SprintfDxD(size) == ToDecimal(size) \o "x" \o ToDecimal(size)

(***************************************************************************)
(* Errors.  errors.New(msg) is identified by its message; the errors of    *)
(* encoding/json, of io and of net/http have types of their own.           *)
(***************************************************************************)
NoErr == [kind |-> "nil", msg |-> ""]
ErrorsNew(m) == [kind |-> "errorString", msg |-> m]
JsonSyntaxError == [kind |-> "json.SyntaxError", msg |-> "invalid character"]
JsonTypeError == [kind |-> "json.UnmarshalTypeError", msg |-> "cannot unmarshal"]
ReadError == [kind |-> "fs.PathError", msg |-> "read failed"]
TransportError == [kind |-> "url.Error", msg |-> "Post failed"]

\* []Datum: the nil slice, or a slice of items
NilResult == [isNil |-> TRUE, items |-> <<>>]
Slice(s) == [isNil |-> FALSE, items |-> s]

(***************************************************************************)
(* The wire.  A request body is a sequence of parts: the members of the    *)
(* JSON object (kind "string" or "number", text the literal's content) or  *)
(* the parts of the multipart form (kind "file" or "field"), followed by   *)
(* as many closing trailers as w.Close() wrote.                            *)
(***************************************************************************)
Part(nm, kd, fn, tx) == [name |-> nm, kind |-> kd, filename |-> fn, text |-> tx]

EmptyBody == [parts |-> <<>>, closed |-> 0]
NoReq == [method |-> "", url |-> "", authorization |-> "", userAgent |-> "",
          contentType |-> "", body |-> EmptyBody]

\* a step a call has taken on its multipart writer or on the transport
Event(e, nm) == [ev |-> e, name |-> nm]

\* type client struct, as NewClient fills it
NewClient(apiKey) ==
    [baseURL |-> defaultBaseURL,
     apiKey |-> apiKey,
     userAgent |-> defaultUserAgent,
     httpClient |-> [Timeout |-> defaultTimeout]]

\* the arguments of a call; an operation leaves the ones it lacks empty
Args(pr, im, mk, sz, cnt, us, rt) ==
    [prompt |-> pr, image |-> im, mask |-> mk, size |-> sz, n |-> cnt,
     user |-> us, responseType |-> rt]
NoArgs == Args("", NilFile, NilFile, NilPtr, NilPtr, NilStr, NilStr)

GenerateArgs ==
    {Args(pr, NilFile, NilFile, sz, cnt, us, rt) :
        pr \in Prompts, sz \in SizePtrs, cnt \in CountPtrs,
        us \in Users, rt \in ResponseTypes}
EditArgs ==
    {Args(pr, f[1], f[2], q[1], q[2], t[1], t[2]) :
        pr \in Prompts, f \in Images \X Masks, q \in SizePtrs \X CountPtrs,
        t \in Users \X ResponseTypes}
VariationArgs ==
    {Args("", im, NilFile, q[1], q[2], us, rt) :
        im \in Images, q \in SizePtrs \X CountPtrs,
        us \in Users, rt \in ResponseTypes}

(***************************************************************************)
(* Generate up to the call of c.httpClient.Do.                             *)
(***************************************************************************)
\* json.Marshal of one member of GenerateRequest tagged omitempty
MarshalOptString(nm, p) ==
    IF p.isNil THEN <<>> ELSE <<Part(nm, "string", "", p.val)>>
MarshalOptInt(nm, p) ==
    IF p = NilPtr THEN <<>> ELSE <<Part(nm, "number", "", ToDecimal(Deref(p)))>>

\* sizeStr of Generate, Edit and Variation: nil, or a pointer to the string
GenerateSizeStr(size) ==
    IF size # NilPtr THEN StrPtr(SprintfDxD(size)) ELSE NilStr
EditSizeStr(size) ==
    IF size # NilPtr THEN StrPtr(SprintfDxD(size)) ELSE NilStr
VariationSizeStr(size) ==
    IF size # NilPtr THEN StrPtr(SprintfDxD(size)) ELSE NilStr

\* json.Marshal(body): the members in the order of the struct's fields
GenerateBody(a) ==
    [parts |-> <<Part("prompt", "string", "", a.prompt)>>
               \o MarshalOptInt("n", a.n)
               \o MarshalOptString("size", GenerateSizeStr(a.size))
               \o MarshalOptString("response_format", a.responseType)
               \o MarshalOptString("user", a.user),
     closed |-> 0]

\* the request Generate hands to Do
GenerateRequest(c, a) ==
    [method |-> "POST",
     url |-> c.baseURL \o "/generations",
     authorization |-> "Bearer " \o c.apiKey,
     userAgent |-> c.userAgent,
     contentType |-> "application/json",
     body |-> GenerateBody(a)]

(***************************************************************************)
(* mime/multipart.Writer over a bytes.Buffer, and the locals of a call     *)
(* that builds a form.  Once the call has returned (returned = TRUE) the   *)
(* steps after the return do nothing.  Writes to a bytes.Buffer do not     *)
(* fail, so only io.Copy (reading the file) can.                           *)
(***************************************************************************)
NewWriter ==
    [parts |-> <<>>, closed |-> 0, trace |-> <<>>, returned |-> FALSE,
     err |-> NoErr]

Return(st, e) == IF st.returned THEN st ELSE [st EXCEPT !.returned = TRUE, !.err = e]

CreateFormFile(st, field, file) ==
    IF st.returned THEN st
    ELSE [st EXCEPT !.parts = Append(@, Part(field, "file", file.name, "")),
                    !.trace = Append(@, Event("CreateFormFile", field))]

IoCopy(st, field, file) ==
    IF st.returned THEN st
    ELSE IF file.readable
    THEN [st EXCEPT !.parts[Len(st.parts)].text = file.data,
                    !.trace = Append(@, Event("Copy", field))]
    ELSE [st EXCEPT !.trace = Append(@, Event("CopyFailed", field)),
                    !.returned = TRUE, !.err = ReadError]

WriteField(st, field, value) ==
    IF st.returned THEN st
    ELSE [st EXCEPT !.parts = Append(@, Part(field, "field", "", value)),
                    !.trace = Append(@, Event("WriteField", field))]

WriterClose(st) ==
    IF st.returned THEN st
    ELSE [st EXCEPT !.closed = @ + 1,
                    !.trace = Append(@, Event("Close", ""))]

FormDataContentType == "multipart/form-data; boundary=b0"

(***************************************************************************)
(* Edit up to the call of c.httpClient.Do.                                 *)
(***************************************************************************)
EditCheckImage(st, a) ==
    IF a.image.isNil THEN Return(st, ErrorsNew("image is nil")) ELSE st
\* Edit without the check of the mask
EditCheckMaskSkipped(st, a) == st

EditCheckMask(st, a) ==
    IF a.mask.isNil THEN Return(st, ErrorsNew("mask is nil")) ELSE st

EditFiles(st, a) ==
    LET s1 == IoCopy(CreateFormFile(st, "image", a.image), "image", a.image)
    IN  IoCopy(CreateFormFile(s1, "mask", a.mask), "mask", a.mask)

EditFields(st, a) ==
    LET sizeStr == EditSizeStr(a.size)
        s1 == WriteField(st, "prompt", a.prompt)
        s2 == IF a.n # NilPtr THEN WriteField(s1, "n", SprintfD(a.n)) ELSE s1
        s3 == IF ~sizeStr.isNil THEN WriteField(s2, "size", sizeStr.val) ELSE s2
        s4 == IF ~a.user.isNil THEN WriteField(s3, "user", a.user.val) ELSE s3
    IN  IF ~a.responseType.isNil
        THEN WriteField(s4, "response_format", a.responseType.val) ELSE s4

\* Edit closing the writer before it writes the text fields
EditFormClosedEarly(a) ==
    EditFields(WriterClose(EditFiles(EditCheckMask(EditCheckImage(NewWriter, a), a), a)), a)

EditForm(a) ==
    WriterClose(EditFields(EditFiles(EditCheckMask(EditCheckImage(NewWriter, a), a), a), a))

EditRequest(c, st) ==
    [method |-> "POST",
     url |-> c.baseURL \o "/edits",
     authorization |-> "Bearer " \o c.apiKey,
     userAgent |-> c.userAgent,
     contentType |-> FormDataContentType,
     body |-> [parts |-> st.parts, closed |-> st.closed]]

(***************************************************************************)
(* Variation up to the call of c.httpClient.Do.                            *)
(***************************************************************************)
VariationCheckImage(st, a) ==
    IF a.image.isNil THEN Return(st, ErrorsNew("image is nil")) ELSE st

VariationFiles(st, a) ==
    IoCopy(CreateFormFile(st, "image", a.image), "image", a.image)

VariationFields(st, a) ==
    LET sizeStr == VariationSizeStr(a.size)
        s2 == IF a.n # NilPtr THEN WriteField(st, "n", SprintfD(a.n)) ELSE st
        s3 == IF ~sizeStr.isNil THEN WriteField(s2, "size", sizeStr.val) ELSE s2
        s4 == IF ~a.user.isNil THEN WriteField(s3, "user", a.user.val) ELSE s3
    IN  IF ~a.responseType.isNil
        THEN WriteField(s4, "response_format", a.responseType.val) ELSE s4

VariationForm(a) ==
    WriterClose(VariationFields(VariationFiles(VariationCheckImage(NewWriter, a), a), a))

VariationRequest(c, st) ==
    [method |-> "POST",
     url |-> c.baseURL \o "/variations",
     authorization |-> "Bearer " \o c.apiKey,
     userAgent |-> c.userAgent,
     contentType |-> FormDataContentType,
     body |-> [parts |-> st.parts, closed |-> st.closed]]

(***************************************************************************)
(* The remote service and the transport: what c.httpClient.Do returns.     *)
(***************************************************************************)
\* an item of "data" on the wire: the url member and the b64_json member
WireItem(u, b) == [url |-> u, b64_json |-> b]
WireItems == {WireItem("https://img.example/1.png", ""), WireItem("", "aGk=")}

RECURSIVE SeqsUpTo(_, _)
SeqsUpTo(S, k) ==
    IF k = 0 THEN {<<>>}
    ELSE LET shorter == SeqsUpTo(S, k - 1)
         IN  shorter \cup {Append(q, x) : q \in shorter, x \in S}

\* a response body: a well-formed envelope, a text that is not JSON, or JSON
\* in which an item after the items of data is of the wrong type
Body(f, cr, d) == [form |-> f, created |-> cr, data |-> d]
EnvelopeBodies == {Body("envelope", 1, d) : d \in SeqsUpTo(WireItems, MaxItems)}
MalformedBodies == {Body("syntax_error", 0, <<>>)}
MistypedBodies == {Body("type_mismatch", 1, d) : d \in SeqsUpTo(WireItems, 1)}
ErrorBody == Body("error_body", 0, <<>>)

ListedStatuses == {400, 401, 403, 404, 429, 500, 502, 503, 504}
OtherStatuses == {201, 418}

Response(te, st, b) == [transportErr |-> te, status |-> st, body |-> b]
NoResp == Response(FALSE, 0, ErrorBody)
Responses ==
    {Response(TRUE, 0, ErrorBody)}
    \cup {Response(FALSE, st, ErrorBody) : st \in ListedStatuses \cup OtherStatuses}
    \cup {Response(FALSE, 200, b) :
            b \in EnvelopeBodies \cup MalformedBodies \cup MistypedBodies}

\* json.NewDecoder(resp.Body).Decode(&response): the value left in response
\* (members other than created, data and url are dropped; what was decoded
\* before a type error stays) and the error
\* Datum with the tag of the other member of the item
DecodeDatumOtherTag(it) == [URL |-> it.b64_json]

DecodeDatum(it) == [URL |-> it.url]
Decode(b) ==
    CASE b.form = "envelope" ->
            [response |-> [Created |-> b.created,
                           Data |-> Slice([i \in 1..Len(b.data) |-> DecodeDatum(b.data[i])])],
             err |-> NoErr]
      [] b.form = "type_mismatch" ->
            [response |-> [Created |-> b.created,
                           Data |-> Slice([i \in 1..Len(b.data) |-> DecodeDatum(b.data[i])])],
             err |-> JsonTypeError]
      [] OTHER ->
            [response |-> [Created |-> 0, Data |-> NilResult],
             err |-> JsonSyntaxError]

\* the switch on resp.StatusCode of each operation
GenerateStatusErr(code) ==
    CASE code = 400 -> ErrorsNew("bad request")
      [] code = 401 -> ErrorsNew("unauthorized")
      [] code = 403 -> ErrorsNew("forbidden")
      [] code = 404 -> ErrorsNew("not found")
      [] code = 429 -> ErrorsNew("too many requests")
      [] code = 500 -> ErrorsNew("internal server error")
      [] code = 502 -> ErrorsNew("bad gateway")
      [] code = 503 -> ErrorsNew("service unavailable")
      [] code = 504 -> ErrorsNew("gateway timeout")
      [] OTHER -> ErrorsNew("unknown error")

\* Edit's switch with the text of case 400 pasted into case 502
EditStatusErrPasted(code) ==
    CASE code = 400 -> ErrorsNew("bad request")
      [] code = 401 -> ErrorsNew("unauthorized")
      [] code = 403 -> ErrorsNew("forbidden")
      [] code = 404 -> ErrorsNew("not found")
      [] code = 429 -> ErrorsNew("too many requests")
      [] code = 500 -> ErrorsNew("internal server error")
      [] code = 502 -> ErrorsNew("bad request")
      [] code = 503 -> ErrorsNew("service unavailable")
      [] code = 504 -> ErrorsNew("gateway timeout")
      [] OTHER -> ErrorsNew("unknown error")

EditStatusErr(code) ==
    CASE code = 400 -> ErrorsNew("bad request")
      [] code = 401 -> ErrorsNew("unauthorized")
      [] code = 403 -> ErrorsNew("forbidden")
      [] code = 404 -> ErrorsNew("not found")
      [] code = 429 -> ErrorsNew("too many requests")
      [] code = 500 -> ErrorsNew("internal server error")
      [] code = 502 -> ErrorsNew("bad gateway")
      [] code = 503 -> ErrorsNew("service unavailable")
      [] code = 504 -> ErrorsNew("gateway timeout")
      [] OTHER -> ErrorsNew("unknown error")

VariationStatusErr(code) ==
    CASE code = 400 -> ErrorsNew("bad request")
      [] code = 401 -> ErrorsNew("unauthorized")
      [] code = 403 -> ErrorsNew("forbidden")
      [] code = 404 -> ErrorsNew("not found")
      [] code = 429 -> ErrorsNew("too many requests")
      [] code = 500 -> ErrorsNew("internal server error")
      [] code = 502 -> ErrorsNew("bad gateway")
      [] code = 503 -> ErrorsNew("service unavailable")
      [] code = 504 -> ErrorsNew("gateway timeout")
      [] OTHER -> ErrorsNew("unknown error")

\* what an operation returns: ([]Datum, error)
Returned(res, e) == [result |-> res, err |-> e]

\* Generate, Edit and Variation from the return of Do to their own return
GenerateResult(r) ==
    IF r.transportErr THEN Returned(NilResult, TransportError)
    ELSE IF r.status # 200 THEN Returned(NilResult, GenerateStatusErr(r.status))
    ELSE LET d == Decode(r.body)
         IN  IF d.err # NoErr THEN Returned(NilResult, d.err)
             ELSE Returned(d.response.Data, NoErr)

\* Edit returning what was decoded together with the error of Decode
EditResultPartial(r) ==
    IF r.transportErr THEN Returned(NilResult, TransportError)
    ELSE IF r.status # 200 THEN Returned(NilResult, EditStatusErr(r.status))
    ELSE LET d == Decode(r.body) IN Returned(d.response.Data, d.err)

EditResult(r) ==
    IF r.transportErr THEN Returned(NilResult, TransportError)
    ELSE IF r.status # 200 THEN Returned(NilResult, EditStatusErr(r.status))
    ELSE LET d == Decode(r.body)
         IN  IF d.err # NoErr THEN Returned(NilResult, d.err)
             ELSE Returned(d.response.Data, NoErr)

\* Variation with the error of Decode left unchecked
VariationResultUnchecked(r) ==
    IF r.transportErr THEN Returned(NilResult, TransportError)
    ELSE IF r.status # 200 THEN Returned(NilResult, VariationStatusErr(r.status))
    ELSE Returned(Decode(r.body).response.Data, NoErr)

VariationResult(r) ==
    IF r.transportErr THEN Returned(NilResult, TransportError)
    ELSE IF r.status # 200 THEN Returned(NilResult, VariationStatusErr(r.status))
    ELSE LET d == Decode(r.body)
         IN  IF d.err # NoErr THEN Returned(NilResult, d.err)
             ELSE Returned(d.response.Data, NoErr)

(***************************************************************************)
(* The state: the client the calls share, and each invocation with its     *)
(* locals.  pc is "idle" before the call, "rejected" once the call has     *)
(* returned an error without reaching Do, "inflight" while it blocks in    *)
(* Do, "done" once it has returned after Do; sent counts the calls of Do.  *)
(* The locals of a call that went through Do (args, trace, req) are dead   *)
(* at its return and are cleared there.                                    *)
(***************************************************************************)
IdleCall ==
    [pc |-> "idle", op |-> "", args |-> NoArgs, trace |-> <<>>, req |-> NoReq,
     sent |-> 0, resp |-> NoResp, result |-> NilResult, err |-> NoErr]

Init ==
    /\ client = NewClient(ApiKey)
    /\ calls = [p \in Calls |-> IdleCall]

\* Generate keeping its url in the client: c.baseURL += "/generations"
GenerateStoringURL(p) ==
    /\ calls[p].pc = "idle"
    /\ \E a \in GenerateArgs :
          LET c == [client EXCEPT !.baseURL = @ \o "/generations"]
          IN  calls' = [calls EXCEPT ![p] =
                      [@ EXCEPT !.pc = "inflight", !.op = "Generate", !.args = a,
                                !.trace = <<Event("NewRequest", ""), Event("Do", "")>>,
                                !.req = [GenerateRequest(client, a) EXCEPT !.url = c.baseURL],
                                !.sent = @ + 1]]
    /\ client' = [client EXCEPT !.baseURL = @ \o "/generations"]

\* Generate(prompt, size, n, user, responseType) until it blocks in Do
Generate(p) ==
    /\ calls[p].pc = "idle"
    /\ \E a \in GenerateArgs :
          calls' = [calls EXCEPT ![p] =
                      [@ EXCEPT !.pc = "inflight", !.op = "Generate", !.args = a,
                                !.trace = <<Event("NewRequest", ""), Event("Do", "")>>,
                                !.req = GenerateRequest(client, a),
                                !.sent = @ + 1]]
    /\ UNCHANGED client

\* Edit(prompt, image, mask, size, n, user, responseType) until it returns an
\* error of its own or blocks in Do
Edit(p) ==
    /\ calls[p].pc = "idle"
    /\ \E a \in EditArgs :
          LET st == EditForm(a)
          IN  calls' = [calls EXCEPT ![p] =
                IF st.returned
                THEN [@ EXCEPT !.pc = "rejected", !.op = "Edit", !.args = a,
                               !.trace = st.trace,
                               !.result = NilResult, !.err = st.err]
                ELSE [@ EXCEPT !.pc = "inflight", !.op = "Edit", !.args = a,
                               !.trace = st.trace
                                         \o <<Event("NewRequest", ""), Event("Do", "")>>,
                               !.req = EditRequest(client, st),
                               !.sent = @ + 1]]
    /\ UNCHANGED client

\* Variation(image, size, n, user, responseType) until it returns an error of
\* its own or blocks in Do
Variation(p) ==
    /\ calls[p].pc = "idle"
    /\ \E a \in VariationArgs :
          LET st == VariationForm(a)
          IN  calls' = [calls EXCEPT ![p] =
                IF st.returned
                THEN [@ EXCEPT !.pc = "rejected", !.op = "Variation", !.args = a,
                               !.trace = st.trace,
                               !.result = NilResult, !.err = st.err]
                ELSE [@ EXCEPT !.pc = "inflight", !.op = "Variation", !.args = a,
                               !.trace = st.trace
                                         \o <<Event("NewRequest", ""), Event("Do", "")>>,
                               !.req = VariationRequest(client, st),
                               !.sent = @ + 1]]
    /\ UNCHANGED client

\* the return of a call that was blocked in Do
Finish(call, r, ret) ==
    [call EXCEPT !.pc = "done", !.args = NoArgs, !.trace = <<>>, !.req = NoReq,
                 !.resp = r, !.result = ret.result, !.err = ret.err]

\* Do returns to Generate, which classifies, decodes and returns
GenerateReturn(p) ==
    /\ calls[p].pc = "inflight"
    /\ calls[p].op = "Generate"
    /\ \E r \in Responses :
          calls' = [calls EXCEPT ![p] = Finish(@, r, GenerateResult(r))]
    /\ UNCHANGED client

\* Edit sending its request a second time after a transport error
EditReturnRetrying(p) ==
    /\ calls[p].pc = "inflight"
    /\ calls[p].op = "Edit"
    /\ \E r \in Responses :
          calls' = [calls EXCEPT ![p] =
                      IF r.transportErr /\ @.sent = 1
                      THEN [@ EXCEPT !.sent = @ + 1,
                                     !.trace = Append(@, Event("Do", ""))]
                      ELSE Finish(@, r, EditResult(r))]
    /\ UNCHANGED client

\* Do returns to Edit
EditReturn(p) ==
    /\ calls[p].pc = "inflight"
    /\ calls[p].op = "Edit"
    /\ \E r \in Responses :
          calls' = [calls EXCEPT ![p] = Finish(@, r, EditResult(r))]
    /\ UNCHANGED client

\* Do returns to Variation
VariationReturn(p) ==
    /\ calls[p].pc = "inflight"
    /\ calls[p].op = "Variation"
    /\ \E r \in Responses :
          calls' = [calls EXCEPT ![p] = Finish(@, r, VariationResult(r))]
    /\ UNCHANGED client

Next ==
    \E p \in Calls :
        \/ Generate(p)
        \/ Edit(p)
        \/ Variation(p)
        \/ GenerateReturn(p)
        \/ EditReturn(p)
        \/ VariationReturn(p)

Spec == Init /\ [][Next]_vars

(***************************************************************************)
(* Properties.                                                             *)
(***************************************************************************)
InFlight(p) == calls[p].pc = "inflight"
Rejected(p) == calls[p].pc = "rejected"
Done(p) == calls[p].pc = "done"
\* the call has returned after a response of the service arrived
Answered(p) == Done(p) /\ ~calls[p].resp.transportErr

PartsNamed(body, nm) == SelectSeq(body.parts, LAMBDA pt : pt.name = nm)
OnWireKind(op) == IF op = "Generate" THEN "string" ELSE "field"
NumberOnWireKind(op) == IF op = "Generate" THEN "number" ELSE "field"

\* the text the size field is to carry for each of the three sizes
SizeText(v) ==
    CASE v = 256 -> "256x256"
      [] v = 512 -> "512x512"
      [] v = 1024 -> "1024x1024"

\* C1: the request a call sends carries exactly one size field whose text is
\* "256x256", "512x512" or "1024x1024" according to the integer size the
\* caller passed (256, 512 or 1024), and no size field when size is absent.
C1_SizeFieldIsSizeBySize ==
    \A p \in Calls :
        InFlight(p) =>
            LET a == calls[p].args
                sz == PartsNamed(calls[p].req.body, "size")
            IN  IF a.size = NilPtr THEN sz = <<>>
                ELSE /\ Len(sz) = 1
                     /\ sz[1].kind = OnWireKind(calls[p].op)
                     /\ sz[1].text = SizeText(Deref(a.size))

\* C7: the request a call sends carries exactly one n field holding the
\* decimal digits of the integer count the caller passed (a JSON number in
\* Generate, a form field in Edit and Variation), and no n field when the
\* count is absent.
C7_CountFieldIsCount ==
    \A p \in Calls :
        InFlight(p) =>
            LET a == calls[p].args
                cnt == PartsNamed(calls[p].req.body, "n")
            IN  IF a.n = NilPtr THEN cnt = <<>>
                ELSE /\ Len(cnt) = 1
                     /\ cnt[1].kind = NumberOnWireKind(calls[p].op)
                     /\ cnt[1].text = ToDecimal(Deref(a.n))

HasEvent(tr, e) == \E i \in 1..Len(tr) : tr[i].ev = e

\* C2: an Edit whose image or mask is nil, and a Variation whose image is
\* nil, has returned without reaching Do, with a nil result and the error
\* "image is nil" (or "mask is nil" when only the mask is nil), whatever its
\* other arguments are.
C2_NilPayloadRejected ==
    \A p \in Calls :
        LET c == calls[p]
            missing ==
                /\ c.pc \in {"inflight", "rejected"}
                /\ \/ c.op = "Edit" /\ (c.args.image.isNil \/ c.args.mask.isNil)
                   \/ c.op = "Variation" /\ c.args.image.isNil
        IN  missing =>
                /\ c.pc = "rejected"
                /\ c.result = NilResult
                /\ c.err = IF c.args.image.isNil THEN ErrorsNew("image is nil")
                           ELSE ErrorsNew("mask is nil")
                /\ c.sent = 0
                /\ c.req = NoReq
                /\ ~HasEvent(c.trace, "NewRequest")
                /\ ~HasEvent(c.trace, "Do")

\* C2 witness: an Edit with an image and without a mask was rejected while
\* it had a size, a count, a user and a response format.
C2_Witness ==
    \E p \in Calls :
        /\ Rejected(p)
        /\ calls[p].op = "Edit"
        /\ ~calls[p].args.image.isNil
        /\ calls[p].args.mask.isNil
        /\ calls[p].args.size # NilPtr
        /\ calls[p].args.n # NilPtr
        /\ ~calls[p].args.user.isNil
        /\ calls[p].err.msg = "mask is nil"

UnknownError == ErrorsNew("unknown error")

\* C3: a call that was answered with a status other than 200 returns a nil
\* result and an error made by errors.New; the error is "unknown error"
\* exactly for the codes outside 400, 401, 403, 404, 429, 500, 502, 503, 504;
\* two calls so answered, of whatever operations, return the same error
\* exactly when their codes are equal or are both outside the nine; and a
\* call answered with 200 returns none of these errors.
C3_StatusClassification ==
    /\ \A p \in Calls :
          Answered(p) =>
            LET c == calls[p] IN
            IF c.resp.status = 200
            THEN c.err.kind # "errorString"
            ELSE /\ c.result = NilResult
                 /\ c.err.kind = "errorString"
                 /\ (c.err = UnknownError) <=> (c.resp.status \notin ListedStatuses)
    /\ \A p, q \in Calls :
          (Answered(p) /\ Answered(q)
              /\ calls[p].resp.status # 200 /\ calls[q].resp.status # 200) =>
            ((calls[p].err = calls[q].err) <=>
                \/ calls[p].resp.status = calls[q].resp.status
                \/ /\ calls[p].resp.status \notin ListedStatuses
                   /\ calls[q].resp.status \notin ListedStatuses)

\* C3 witness: an Edit answered 502 and a Variation answered 400 have both
\* returned, with different errors.
C3_Witness ==
    \E p, q \in Calls :
        /\ Answered(p) /\ calls[p].op = "Edit" /\ calls[p].resp.status = 502
        /\ Answered(q) /\ calls[q].op = "Variation" /\ calls[q].resp.status = 400
        /\ calls[p].err # calls[q].err

\* C4: a call answered 200 with a well-formed envelope returns a nil error
\* and a non-nil result with one item per item of the envelope's data, in
\* the same order, each item's URL being the url of the item of the response.
C4_EnvelopeReturned ==
    \A p \in Calls :
        (Answered(p) /\ calls[p].resp.status = 200
            /\ calls[p].resp.body.form = "envelope") =>
            LET data == calls[p].resp.body.data
                res == calls[p].result
            IN  /\ calls[p].err = NoErr
                /\ ~res.isNil
                /\ Len(res.items) = Len(data)
                /\ \A i \in 1..Len(data) : res.items[i].URL = data[i].url

\* C4 witness: a call returned two items, the first with a URL and the second
\* without one, as the response listed them.
C4_Witness ==
    \E p \in Calls :
        /\ Answered(p)
        /\ calls[p].resp.status = 200
        /\ calls[p].resp.body.form = "envelope"
        /\ Len(calls[p].resp.body.data) = 2
        /\ calls[p].resp.body.data[1].url # ""
        /\ calls[p].resp.body.data[2].url = ""
        /\ Len(calls[p].result.items) = 2
        /\ calls[p].result.items[1].URL # ""

StatusMessages ==
    {"bad request", "unauthorized", "forbidden", "not found",
     "too many requests", "internal server error", "bad gateway",
     "service unavailable", "gateway timeout", "unknown error"}
StatusErrors == {ErrorsNew(m) : m \in StatusMessages}

\* C5: a call answered 200 with a body that is not JSON returns a nil result
\* and an error that is none of the ten errors of the status codes.
C5_MalformedIsDecodeError ==
    \A p \in Calls :
        (Answered(p) /\ calls[p].resp.status = 200
            /\ calls[p].resp.body.form = "syntax_error") =>
            /\ calls[p].result = NilResult
            /\ calls[p].err # NoErr
            /\ calls[p].err \notin StatusErrors

\* C5 witness: a Variation answered 200 with a body that is not JSON has
\* returned the decoder's error.
C5_Witness ==
    \E p \in Calls :
        /\ Answered(p)
        /\ calls[p].op = "Variation"
        /\ calls[p].resp.status = 200
        /\ calls[p].resp.body.form = "syntax_error"
        /\ calls[p].err = JsonSyntaxError

\* C6: no call holds both a non-nil result and a non-nil error.
C6_NoPartialSuccess ==
    \A p \in Calls : calls[p].err # NoErr => calls[p].result.isNil

\* C6 witness: an Edit answered 200 with a body whose first item decoded
\* before a type error was met has returned the error and a nil result.
C6_Witness ==
    \E p \in Calls :
        /\ Answered(p)
        /\ calls[p].op = "Edit"
        /\ calls[p].resp.status = 200
        /\ calls[p].resp.body.form = "type_mismatch"
        /\ Len(calls[p].resp.body.data) = 1
        /\ calls[p].err = JsonTypeError
        /\ calls[p].result.isNil

CountEvents(tr, e) == Cardinality({i \in 1..Len(tr) : tr[i].ev = e})

\* C8: a call sends at most one request: none when it returned before Do
\* (a nil payload or a failed copy), one while it is blocked in Do, and still
\* one after it has returned, whatever Do returned; and a call whose payloads
\* are present and readable is not rejected.
C8_OneRequestNoRetry ==
    \A p \in Calls :
        LET c == calls[p] IN
        /\ c.sent <= 1
        /\ c.pc \in {"idle", "rejected"} => c.sent = 0 /\ ~HasEvent(c.trace, "Do")
        /\ c.pc = "inflight" => c.sent = 1 /\ CountEvents(c.trace, "Do") = 1
        /\ c.pc = "done" => c.sent = 1
        /\ (c.pc = "rejected" /\ c.op = "Edit") =>
                ~(c.args.image.readable /\ c.args.mask.readable)
        /\ (c.pc = "rejected" /\ c.op = "Variation") => ~c.args.image.readable
        /\ c.pc = "rejected" => c.op # "Generate"

\* C8 witness: one call has returned after a transport error, another after
\* the status 503, each having sent one request.
C8_Witness ==
    \E p, q \in Calls :
        /\ Done(p) /\ calls[p].resp.transportErr /\ calls[p].sent = 1
        /\ Answered(q) /\ calls[q].resp.status = 503 /\ calls[q].sent = 1

OpPath(op) ==
    CASE op = "Generate" -> "/generations"
      [] op = "Edit" -> "/edits"
      [] op = "Variation" -> "/variations"

\* C9: the client keeps the fields NewClient gave it; every request in
\* flight carries the base URL, the key and the user agent of NewClient; two
\* calls in flight of the same operation with the same arguments carry the
\* same request; and two calls that returned after the same response of the
\* same operation returned the same result and error.
C9_ClientNotShared ==
    /\ client = NewClient(ApiKey)
    /\ \A p \in Calls :
          InFlight(p) =>
            /\ calls[p].req.url = defaultBaseURL \o OpPath(calls[p].op)
            /\ calls[p].req.authorization = "Bearer " \o ApiKey
            /\ calls[p].req.userAgent = defaultUserAgent
    /\ \A p, q \in Calls :
          (InFlight(p) /\ InFlight(q) /\ calls[p].op = calls[q].op
              /\ calls[p].args = calls[q].args) => calls[p].req = calls[q].req
    /\ \A p, q \in Calls :
          (Done(p) /\ Done(q) /\ calls[p].op = calls[q].op
              /\ calls[p].resp = calls[q].resp) =>
            /\ calls[p].result = calls[q].result
            /\ calls[p].err = calls[q].err

\* C9 witness: a Generate and an Edit are blocked in Do at the same time.
C9_Witness ==
    \E p, q \in Calls :
        /\ InFlight(p) /\ calls[p].op = "Generate"
        /\ InFlight(q) /\ calls[q].op = "Edit"

\* the steps of an Edit (withMask) or a Variation up to its last payload
PayloadSteps(withMask) ==
    <<Event("CreateFormFile", "image"), Event("Copy", "image")>>
    \o (IF withMask
        THEN <<Event("CreateFormFile", "mask"), Event("Copy", "mask")>>
        ELSE <<>>)

\* C10: an Edit or a Variation blocked in Do has first created and copied
\* the image (then, in Edit, the mask), then written only text fields, then
\* closed the writer once, then created and sent the request; the body it
\* sent holds one part per part written, the payloads whole, and one
\* trailer; and a call whose copy of a payload failed has neither closed
\* the writer nor created or sent a request.
C10_FormFinalizedInOrder ==
    \A p \in Calls :
        LET c == calls[p]
            tr == c.trace
            k == Len(PayloadSteps(c.op = "Edit"))
        IN  /\ (InFlight(p) /\ c.op \in {"Edit", "Variation"}) =>
                /\ Len(tr) >= k + 3
                /\ SubSeq(tr, 1, k) = PayloadSteps(c.op = "Edit")
                /\ \A i \in (k + 1)..(Len(tr) - 3) : tr[i].ev = "WriteField"
                /\ tr[Len(tr) - 2].ev = "Close"
                /\ tr[Len(tr) - 1].ev = "NewRequest"
                /\ tr[Len(tr)].ev = "Do"
                /\ CountEvents(tr, "Close") = 1
                /\ c.req.body.closed = 1
                /\ Len(c.req.body.parts) = Len(tr) - 3 - (k \div 2)
                /\ c.req.body.parts[1].text = c.args.image.data
                /\ c.op = "Edit" => c.req.body.parts[2].text = c.args.mask.data
            /\ (Rejected(p) /\ HasEvent(tr, "CopyFailed")) =>
                /\ tr[Len(tr)].ev = "CopyFailed"
                /\ ~HasEvent(tr, "Close")
                /\ ~HasEvent(tr, "NewRequest")
                /\ ~HasEvent(tr, "Do")
                /\ c.sent = 0
                /\ c.result = NilResult
                /\ c.err = ReadError

\* C10 witness: an Edit that wrote the prompt, n, size, user and
\* response_format is blocked in Do.
C10_Witness ==
    \E p \in Calls :
        /\ InFlight(p)
        /\ calls[p].op = "Edit"
        /\ Len(calls[p].trace) = 12
        /\ calls[p].trace[10].ev = "Close"

====
